---- MODULE Spec2Model ----
(***************************************************************************)
(* AnkAi backend: the vocabulary registry (VocabManager), its daily        *)
(* new-word allowance, word classification, and the article endpoint that  *)
(* segments, classifies, aggregates and enforces the allowance.            *)
(*                                                                         *)
(* A text is a sequence of characters; a character is written by a short   *)
(* romanised name ("huo" for U+706B, "che" for U+8F66, ...).               *)
(***************************************************************************)
EXTENDS Integers, Sequences, FiniteSets, TLC

\* ------------------------------------------------------------------ bounds
MaxDay == 2
MaxLen == 4
MaxBudget == 2

\* ------------------------------------------------------------------ texts
HuoCheZhan == <<"huo", "che", "zhan">>
HuoChe == <<"huo", "che">>
CheZhan == <<"che", "zhan">>
Huo == <<"huo">>
Che == <<"che">>
Zhan == <<"zhan">>
DaXiongMao == <<"da", "xiong", "mao">>
XiongMao == <<"xiong", "mao">>
Xiong == <<"xiong">>
Mao == <<"mao">>
Da == <<"da">>
De == <<"de">>
Period == <<"period">>

\* models.py VocabStatus
S_NEW == "new"
S_DUE == "due"
S_LEARNED == "learned"
S_UNKNOWN == "unknown"

\* Optional[int] / Optional[str] fields holding None
NoCard == 0
NoDeck == "None"

\* ------------------------------------------------------------------ helpers
Max(a, b) == IF a >= b THEN a ELSE b

Min(a, b) == IF a <= b THEN a ELSE b

\* str.startswith / str.endswith
StartsWith(known, t) ==
    /\ Len(t) <= Len(known)
    /\ SubSeq(known, 1, Len(t)) = t

EndsWith(known, t) ==
    /\ Len(t) <= Len(known)
    /\ SubSeq(known, Len(known) - Len(t) + 1, Len(known)) = t

\* the keys of the insertion-ordered dict self.vocab
Keys(v) == {v[i].hanzi : i \in 1..Len(v)}

\* position of a key in the dict (0 when absent)
IndexOf(v, h) ==
    IF h \in Keys(v) THEN CHOOSE i \in 1..Len(v) : v[i].hanzi = h ELSE 0

\* ------------------------------------------------------------------ dictionary store
\* One record of the CC-CEDICT resource: traditional, simplified, definitions.
CedictLines ==
    << [traditional |-> <<"mao_t">>, simplified |-> Mao, defs |-> <<"cat", "feline">>],
       [traditional |-> <<"mao_t">>, simplified |-> Mao, defs |-> <<"to hide">>],
       [traditional |-> De, simplified |-> De, defs |-> <<"of">>] >>

\* variant: a later line overwrites the entry of an earlier one
RECURSIVE CedictFold_LastWins(_, _, _)
CedictFold_LastWins(lines, i, dictionary) ==
    IF i > Len(lines) THEN dictionary
    ELSE LET first_def == <<lines[i].defs[1]>>
             simp == lines[i].simplified
             trad == lines[i].traditional
             d1 == {e \in dictionary : e[1] # simp} \cup {<<simp, first_def>>}
             d2 == {e \in d1 : e[1] # trad} \cup {<<trad, first_def>>}
         IN CedictFold_LastWins(lines, i + 1, d2)

RECURSIVE CedictFold(_, _, _)
CedictFold(lines, i, dictionary) ==
    IF i > Len(lines) THEN dictionary
    ELSE LET first_def == <<lines[i].defs[1]>>
             simp == lines[i].simplified
             trad == lines[i].traditional
             d1 == IF \E e \in dictionary : e[1] = simp
                   THEN dictionary ELSE dictionary \cup {<<simp, first_def>>}
             d2 == IF \E e \in d1 : e[1] = trad
                   THEN d1 ELSE d1 \cup {<<trad, first_def>>}
         IN CedictFold(lines, i + 1, d2)

\* load_cedict: a missing resource file gives the empty dictionary
load_cedict(file_exists) ==
    IF ~file_exists THEN {} ELSE CedictFold(CedictLines, 1, {})

\* CEDICT.get(hanzi, "")
LookupIn(dictionary, hanzi) ==
    IF \E e \in dictionary : e[1] = hanzi
    THEN (CHOOSE e \in dictionary : e[1] = hanzi)[2]
    ELSE <<>>

\* ------------------------------------------------------------------ registry
\* The entries of BASIC_VOCAB that are texts of this model.
BASIC_VOCAB ==
    {HuoChe, Che, Zhan, Da, De,
     <<"shi">>, <<"yi">>, <<"wu">>, <<"yue">>, <<"fen">>,
     <<"shi", "yue">>, <<"shi", "yi", "yue">>}

_generate_pinyin(hanzi) == <<"py">> \o hanzi

\* A Word object; obj tells whether it is the object stored in self.vocab
\* ("vocab") or one built by the call ("fresh").
MkWord(h, p, d, s, c, dk, o) ==
    [hanzi |-> h, pinyin |-> p, definition |-> d, status |-> s,
     card_id |-> c, deck_name |-> dk, obj |-> o]

\* f"-> {partial_match.hanzi}: {partial_match.definition}"
BackRef(h, d) == <<"->">> \o h \o <<":">> \o d

\* variant: an entry matches when the text occurs anywhere inside it
RECURSIVE PartialScan_Contains(_, _, _)
PartialScan_Contains(v, hanzi, i) ==
    IF i > Len(v) THEN 0
    ELSE IF Len(v[i].hanzi) <= Len(hanzi) THEN PartialScan_Contains(v, hanzi, i + 1)
    ELSE IF \E k \in 1..(Len(v[i].hanzi) - Len(hanzi) + 1) :
                SubSeq(v[i].hanzi, k, k + Len(hanzi) - 1) = hanzi
         THEN i
    ELSE PartialScan_Contains(v, hanzi, i + 1)

RECURSIVE PartialScan(_, _, _)
PartialScan(v, hanzi, i) ==
    IF i > Len(v) THEN 0
    ELSE IF Len(v[i].hanzi) <= Len(hanzi) THEN PartialScan(v, hanzi, i + 1)
    ELSE IF StartsWith(v[i].hanzi, hanzi) THEN i
    ELSE IF EndsWith(v[i].hanzi, hanzi) THEN i
    ELSE PartialScan(v, hanzi, i + 1)

\* index of the matched registry entry, 0 for None
_find_partial_match(v, hanzi) ==
    IF Len(hanzi) < 1 THEN 0 ELSE PartialScan(v, hanzi, 1)

\* variant: basic vocabulary is consulted before the registry
classify_word_BasicFirst(v, dictionary, hanzi) ==
    IF hanzi \in BASIC_VOCAB
    THEN MkWord(hanzi, _generate_pinyin(hanzi), <<"(basic)">>, S_LEARNED,
                NoCard, "basic", "fresh")
    ELSE IF hanzi \in Keys(v) THEN v[IndexOf(v, hanzi)]
    ELSE LET m == PartialScan(v, hanzi, 1) IN
         IF m # 0
         THEN MkWord(hanzi, _generate_pinyin(hanzi),
                     <<"->">> \o v[m].hanzi \o <<":">> \o v[m].definition, v[m].status,
                     v[m].card_id, v[m].deck_name, "fresh")
         ELSE MkWord(hanzi, _generate_pinyin(hanzi), LookupIn(dictionary, hanzi),
                     S_UNKNOWN, NoCard, NoDeck, "fresh")

\* VocabManager.classify_word: the stored object on an exact match, else a
\* fresh Word (basic vocabulary, partial compound, dictionary fallback)
classify_word(v, dictionary, hanzi) ==
    IF hanzi \in Keys(v) THEN v[IndexOf(v, hanzi)]
    ELSE IF hanzi \in BASIC_VOCAB
    THEN MkWord(hanzi, _generate_pinyin(hanzi), <<"(basic)">>, S_LEARNED,
                NoCard, "basic", "fresh")
    ELSE LET m == _find_partial_match(v, hanzi) IN
         IF m # 0
         THEN MkWord(hanzi, _generate_pinyin(hanzi),
                     BackRef(v[m].hanzi, v[m].definition), v[m].status,
                     v[m].card_id, v[m].deck_name, "fresh")
         ELSE MkWord(hanzi, _generate_pinyin(hanzi), LookupIn(dictionary, hanzi),
                     S_UNKNOWN, NoCard, NoDeck, "fresh")

\* ------------------------------------------------------------------ segmenter
\* characters matched by [。！？.!?]
Terminators == {"period", "qmark"}

\* characters str.strip() removes
Whitespace == {"sp"}

\* characters of classify_segments' punctuation pattern
PunctPatternChars == {"period", "qmark", "sp", "underscore"}

\* characters matched by [\s\W] in the statistics pass
NonWordChars == {"period", "qmark", "sp", "dash"}

\* text.strip() is non-empty
NonBlank(text) == \E i \in 1..Len(text) : text[i] \notin Whitespace

\* length of the run of terminators starting at position i
RECURSIVE TermRun(_, _)
TermRun(text, i) ==
    IF i <= Len(text) /\ text[i] \in Terminators THEN 1 + TermRun(text, i + 1) ELSE 0

\* variant: the terminator run is not joined to the clause before it
RECURSIVE SplitScan_NoPunct(_, _, _)
SplitScan_NoPunct(text, start, i) ==
    IF i > Len(text)
    THEN LET last == SubSeq(text, start, Len(text)) IN
         IF NonBlank(last) THEN <<last>> ELSE <<>>
    ELSE IF text[i] \in Terminators
    THEN LET n == TermRun(text, i)
             sentence == SubSeq(text, start, i - 1)
             rest == SplitScan_NoPunct(text, i + n, i + n)
         IN IF NonBlank(sentence) THEN <<sentence>> \o rest ELSE rest
    ELSE SplitScan_NoPunct(text, start, i + 1)

\* ArticleProcessor.split_sentences: i scans the text, start is where the
\* current clause begins
RECURSIVE SplitScan(_, _, _)
SplitScan(text, start, i) ==
    IF i > Len(text)
    THEN LET last == SubSeq(text, start, Len(text)) IN
         IF NonBlank(last) THEN <<last>> ELSE <<>>
    ELSE IF text[i] \in Terminators
    THEN LET n == TermRun(text, i)
             sentence == SubSeq(text, start, i - 1)
             punct == SubSeq(text, i, i + n - 1)
             rest == SplitScan(text, i + n, i + n)
         IN IF NonBlank(sentence) THEN <<sentence \o punct>> \o rest ELSE rest
    ELSE SplitScan(text, start, i + 1)

split_sentences(text) == SplitScan(text, 1, 1)

\* jieba's own dictionary, restricted to the texts of this model
JiebaBase ==
    {HuoCheZhan, HuoChe, CheZhan, XiongMao,
     <<"shi", "wu", "fen", "zhong">>, <<"shi", "yi", "yue">>}

\* longest word of the lexicon starting at position i (1 when there is none)
MatchLen(text, i, lexicon) ==
    LET fits == {n \in 1..(Len(text) - i + 1) : SubSeq(text, i, i + n - 1) \in lexicon}
    IN IF fits = {} THEN 1 ELSE CHOOSE n \in fits : \A k \in fits : k <= n

\* jieba.cut: dictionary-biased maximum matching over the base dictionary and
\* the words added with jieba.add_word
RECURSIVE JiebaCut(_, _, _)
JiebaCut(text, i, lexicon) ==
    IF i > Len(text) THEN <<>>
    ELSE LET n == MatchLen(text, i, lexicon)
         IN <<SubSeq(text, i, i + n - 1)>> \o JiebaCut(text, i + n, lexicon)

num_chars == {"shi", "yi", "wu"}

FenZhong == <<"fen", "zhong">>
Yue == <<"yue">>
ShiYiYue == <<"shi", "yi", "yue">>
ShiWuFenZhong == <<"shi", "wu", "fen", "zhong">>

\* the entries of the unit set that are texts of this model
units == {FenZhong, Yue}

\* length of the leading run of numeral characters of seg
RECURSIVE NumPrefix(_, _)
NumPrefix(seg, i) ==
    IF i <= Len(seg) /\ seg[i] \in num_chars THEN 1 + NumPrefix(seg, i + 1) ELSE 0

\* variant: a token is split whatever its length
RECURSIVE _split_numeric_compounds_AnyLength(_, _)
_split_numeric_compounds_AnyLength(segments, v) ==
    IF segments = <<>> THEN <<>>
    ELSE LET seg == Head(segments)
             split_pos == NumPrefix(seg, 1)
             remaining == SubSeq(seg, split_pos + 1, Len(seg))
             rest == _split_numeric_compounds_AnyLength(Tail(segments), v)
         IN IF /\ split_pos > 0
               /\ split_pos < Len(seg)
               /\ (remaining \in units \/ remaining \in Keys(v))
            THEN <<SubSeq(seg, 1, split_pos), remaining>> \o rest
            ELSE <<seg>> \o rest

\* variant: the token itself is appended after its two pieces
RECURSIVE _split_numeric_compounds_NoContinue(_, _)
_split_numeric_compounds_NoContinue(segments, v) ==
    IF segments = <<>> THEN <<>>
    ELSE LET seg == Head(segments)
             split_pos == NumPrefix(seg, 1)
             remaining == SubSeq(seg, split_pos + 1, Len(seg))
             rest == _split_numeric_compounds_NoContinue(Tail(segments), v)
         IN IF /\ Len(seg) > 2
               /\ split_pos > 0
               /\ split_pos < Len(seg)
               /\ (remaining \in units \/ remaining \in Keys(v))
            THEN <<SubSeq(seg, 1, split_pos), remaining, seg>> \o rest
            ELSE <<seg>> \o rest

\* variant: a token that is a registry key or a basic word is left whole
RECURSIVE _split_numeric_compounds_KeepsKnown(_, _)
_split_numeric_compounds_KeepsKnown(segments, v) ==
    IF segments = <<>> THEN <<>>
    ELSE LET seg == Head(segments)
             split_pos == NumPrefix(seg, 1)
             remaining == SubSeq(seg, split_pos + 1, Len(seg))
             rest == _split_numeric_compounds_KeepsKnown(Tail(segments), v)
         IN IF /\ Len(seg) > 2
               /\ seg \notin Keys(v) \cup BASIC_VOCAB
               /\ split_pos > 0
               /\ split_pos < Len(seg)
               /\ (remaining \in units \/ remaining \in Keys(v))
            THEN <<SubSeq(seg, 1, split_pos), remaining>> \o rest
            ELSE <<seg>> \o rest

\* ArticleProcessor._split_numeric_compounds
RECURSIVE _split_numeric_compounds(_, _)
_split_numeric_compounds(segments, v) ==
    IF segments = <<>> THEN <<>>
    ELSE LET seg == Head(segments)
             split_pos == NumPrefix(seg, 1)
             remaining == SubSeq(seg, split_pos + 1, Len(seg))
             rest == _split_numeric_compounds(Tail(segments), v)
         IN IF /\ Len(seg) > 2
               /\ split_pos > 0
               /\ split_pos < Len(seg)
               /\ (remaining \in units \/ remaining \in Keys(v))
            THEN <<SubSeq(seg, 1, split_pos), remaining>> \o rest
            ELSE <<seg>> \o rest

\* ArticleProcessor.segment_text
segment_text(text, v, lexicon) ==
    _split_numeric_compounds(JiebaCut(text, 1, lexicon), v)

\* classify_segments' test for punctuation and whitespace
IsPunct(segment) ==
    \/ ~NonBlank(segment)
    \/ \A i \in 1..Len(segment) : segment[i] \in PunctPatternChars

\* variant: a registry key is looked up before the punctuation test
classify_segments_RegistryFirst(segments, v, dictionary) ==
    [i \in 1..Len(segments) |->
        IF segments[i] \in Keys(v) THEN classify_word(v, dictionary, segments[i])
        ELSE IF IsPunct(segments[i])
        THEN MkWord(segments[i], <<>>, <<>>, S_LEARNED, NoCard, NoDeck, "fresh")
        ELSE classify_word(v, dictionary, segments[i])]

\* ArticleProcessor.classify_segments
classify_segments(segments, v, dictionary) ==
    [i \in 1..Len(segments) |->
        IF IsPunct(segments[i])
        THEN MkWord(segments[i], <<>>, <<>>, S_LEARNED, NoCard, NoDeck, "fresh")
        ELSE classify_word(v, dictionary, segments[i])]

\* the statistics pass counts a word when
\* word.hanzi.strip() and not re.match(r'^[\s\W]+$', word.hanzi)
Counted(hanzi) ==
    /\ NonBlank(hanzi)
    /\ \E i \in 1..Len(hanzi) : hanzi[i] \notin NonWordChars

\* ------------------------------------------------------------------ review service
\* The cards of the external review service: their deck and their fields.
\* A card's scheduler state (queue, due) is whatever the service answers at
\* the time it is asked.
Decks == {"D1", "D2", "D3", "D4"}

Cards ==
    << [cardId |-> 1, deck |-> "D1", hanzi |-> HuoCheZhan, definition |-> <<"train station">>],
       [cardId |-> 2, deck |-> "D2", hanzi |-> HuoChe, definition |-> <<"train">>],
       [cardId |-> 3, deck |-> "D2", hanzi |-> HuoCheZhan, definition |-> <<"railway station">>],
       [cardId |-> 4, deck |-> "D2", hanzi |-> DaXiongMao, definition |-> <<"panda">>],
       [cardId |-> 5, deck |-> "D3", hanzi |-> <<"underscore">>, definition |-> <<"low line">>],
       [cardId |-> 6, deck |-> "D3", hanzi |-> <<>>, definition |-> <<"blank">>],
       [cardId |-> 7, deck |-> "D4", hanzi |-> ShiYiYue, definition |-> <<"November">>] >>

\* scheduler states the service answers with: [queue, due]
CardStates == {<<0, 0>>, <<1, 7>>, <<2, 0>>, <<2, 7>>}

\* deck lists a client selects
DeckSelections == {<<>>, <<"D1">>, <<"D2">>, <<"D1", "D2">>, <<"D2", "D1">>}

\* new.perDay values of the deck configuration
PerDayValues == {1, 2}

\* every kind of scheduler state: new, learning, review, relearning, suspended
\* and buried queues, with due before, at and after the current day
AllCardStates == {<<q, d>> : q \in {-2, -1, 0, 1, 2, 3}, d \in {-1, 0, 7}}

\* states answered while decks load
LoadStates == CardStates \cup {<<3, 7>>, <<-1, 0>>, <<2, -1>>, <<-2, 7>>}

\* get_cards_info answers with an empty list
NoCardInfo == <<>>

\* deck lists of the loading scenarios
LoadSelections ==
    {<<>>, <<"D1">>, <<"D3">>, <<"D1", "D2">>, <<"D2", "D1">>, <<"D3", "D1">>}

\* variant: a relearning card counts as learned
StatusOf_RelearningLearned(queue, due) ==
    IF queue = 0 THEN S_NEW
    ELSE IF queue = 1 \/ (queue = 2 /\ due <= 0) THEN S_DUE
    ELSE S_LEARNED

\* status from the card's queue and due (load and refresh use the same rule)
StatusOf(queue, due) ==
    IF queue = 0 THEN S_NEW
    ELSE IF queue \in {1, 3} \/ (queue = 2 /\ due <= 0) THEN S_DUE
    ELSE S_LEARNED

\* VocabManager._extract_word_from_card for a card and the state answered
_extract_word_from_card(card, st) ==
    MkWord(card.hanzi, <<"card">>, card.definition, StatusOf(st[1], st[2]),
           card.cardId, card.deck, "vocab")

\* indexes in Cards of the cards of a deck, in the service's order
CardsOf(deck_name) == {i \in 1..Len(Cards) : Cards[i].deck = deck_name}

ZeroStats == [total |-> 0, new |-> 0, due |-> 0, learned |-> 0]

AddStats(a, b) ==
    [total |-> a.total + b.total, new |-> a.new + b.new,
     due |-> a.due + b.due, learned |-> a.learned + b.learned]

\* variant: a later card of a text replaces the stored entry and is counted
RECURSIVE LoadCards_Overwrites(_, _, _, _)
LoadCards_Overwrites(deck_name, states, i, acc) ==
    IF i > Len(Cards) THEN acc
    ELSE IF Cards[i].deck # deck_name THEN LoadCards_Overwrites(deck_name, states, i + 1, acc)
    ELSE LET word == _extract_word_from_card(Cards[i], states[i])
             kept == SelectSeq(acc.vocab, LAMBDA w : w.hanzi # word.hanzi)
         IN IF word.hanzi # <<>>
            THEN LoadCards_Overwrites(deck_name, states, i + 1,
                   [vocab |-> Append(kept, word),
                    stats |-> [total |-> acc.stats.total + 1,
                               new |-> acc.stats.new + (IF word.status = S_NEW THEN 1 ELSE 0),
                               due |-> acc.stats.due + (IF word.status = S_DUE THEN 1 ELSE 0),
                               learned |-> acc.stats.learned
                                   + (IF word.status \notin {S_NEW, S_DUE} THEN 1 ELSE 0)]])
            ELSE LoadCards_Overwrites(deck_name, states, i + 1, acc)

\* VocabManager._load_deck_vocab: the loop over cards_info, from card index i;
\* acc is [vocab, stats]; states gives the scheduler state of each card
RECURSIVE LoadCards(_, _, _, _)
LoadCards(deck_name, states, i, acc) ==
    IF i > Len(Cards) THEN acc
    ELSE IF Cards[i].deck # deck_name THEN LoadCards(deck_name, states, i + 1, acc)
    ELSE LET word == _extract_word_from_card(Cards[i], states[i])
         IN IF word.hanzi # <<>> /\ word.hanzi \notin Keys(acc.vocab)
            THEN LoadCards(deck_name, states, i + 1,
                   [vocab |-> Append(acc.vocab, word),
                    stats |-> [total |-> acc.stats.total + 1,
                               new |-> acc.stats.new + (IF word.status = S_NEW THEN 1 ELSE 0),
                               due |-> acc.stats.due + (IF word.status = S_DUE THEN 1 ELSE 0),
                               learned |-> acc.stats.learned
                                   + (IF word.status \notin {S_NEW, S_DUE} THEN 1 ELSE 0)]])
            ELSE LoadCards(deck_name, states, i + 1, acc)

_load_deck_vocab(v, deck_name, states) ==
    LoadCards(deck_name, states, 1, [vocab |-> v, stats |-> ZeroStats])

\* variant: the entry at the position of the card id is written
RefreshScan_ByPosition(v, card_id, st, i) ==
    IF card_id \in 1..Len(v)
    THEN [v EXCEPT ![card_id].status = StatusOf(st[1], st[2])]
    ELSE v

\* refresh_card_status: the first entry with this card id gets the status of
\* the fetched state
RECURSIVE RefreshScan(_, _, _, _)
RefreshScan(v, card_id, st, i) ==
    IF i > Len(v) THEN v
    ELSE IF v[i].card_id = card_id
    THEN [v EXCEPT ![i].status = StatusOf(st[1], st[2])]
    ELSE RefreshScan(v, card_id, st, i + 1)

\* st is NoCardInfo when the service answers with no card
refresh_card_status(v, card_id, st) ==
    IF st = NoCardInfo THEN v ELSE RefreshScan(v, card_id, st, 1)

\* ------------------------------------------------------------------ daily allowance
\* variant: the set is emptied but the new date is not stored
_check_date_reset_KeepsDate(it, idate, now) ==
    IF now # idate THEN [today |-> {}, date |-> idate] ELSE [today |-> it, date |-> idate]

\* variant: the new date is stored but the set is not emptied
_check_date_reset_KeepsSet(it, idate, now) ==
    IF now # idate THEN [today |-> it, date |-> now] ELSE [today |-> it, date |-> idate]

\* VocabManager._check_date_reset on the pair [set, date]
_check_date_reset(it, idate, now) ==
    IF now # idate THEN [today |-> {}, date |-> now] ELSE [today |-> it, date |-> idate]

\* variant: the difference is not clamped at zero
RemainingOf_Unclamped(limit, it) == limit - Cardinality(it)

\* get_remaining_new_allowance, after its date check
RemainingOf(limit, it) == Max(0, limit - Cardinality(it))

\* ------------------------------------------------------------------ article pipeline
\* characters in the CJK range and Latin letters, for detect_language
LatinChars == {"a", "b"}

CjkChars == {"huo", "che", "zhan", "da", "xiong", "mao", "de", "shi", "yi", "wu",
             "fen", "zhong", "yue"}

CountIn(text, chars) == Cardinality({i \in 1..Len(text) : text[i] \in chars})

\* variant: a tie counts as Chinese
detect_language_TieIsChinese(text) ==
    IF CountIn(text, CjkChars) >= CountIn(text, LatinChars) THEN "zh" ELSE "en"

detect_language(text) ==
    IF CountIn(text, CjkChars) > CountIn(text, LatinChars) THEN "zh" ELSE "en"

\* the words jieba.add_word has received after _update_jieba_dict
_update_jieba_dict(added, v) ==
    added \cup {v[i].hanzi : i \in {k \in 1..Len(v) : Len(v[k].hanzi) > 1}}

\* all words of all sentences, in document order
RECURSIVE FlatWords(_, _)
FlatWords(sentences, i) ==
    IF i > Len(sentences) THEN <<>>
    ELSE sentences[i].words \o FlatWords(sentences, i + 1)

\* variant: a word is appended at each of its occurrences
RECURSIVE FirstSeen_EveryOccurrence(_, _, _, _)
FirstSeen_EveryOccurrence(ws, i, status, acc) ==
    IF i > Len(ws) THEN acc
    ELSE IF Counted(ws[i].hanzi) /\ ws[i].status = status
    THEN FirstSeen_EveryOccurrence(ws, i + 1, status, Append(acc, ws[i]))
    ELSE FirstSeen_EveryOccurrence(ws, i + 1, status, acc)

\* the dict all_due_words / all_new_words: the first counted word of each
\* text whose status is the given one, in insertion order
RECURSIVE FirstSeen(_, _, _, _)
FirstSeen(ws, i, status, acc) ==
    IF i > Len(ws) THEN acc
    ELSE IF /\ Counted(ws[i].hanzi)
            /\ ws[i].status = status
            /\ ws[i].hanzi \notin Keys(acc)
    THEN FirstSeen(ws, i + 1, status, Append(acc, ws[i]))
    ELSE FirstSeen(ws, i + 1, status, acc)

TotalWords(ws) == Cardinality({i \in 1..Len(ws) : Counted(ws[i].hanzi)})

KnownWords(ws) ==
    Cardinality({i \in 1..Len(ws) :
        Counted(ws[i].hanzi) /\ ws[i].status \in {S_LEARNED, S_DUE}})

\* round(known / total * 100, 1) in tenths of a percent; whenEmpty is the
\* value used when total is 0
Comprehension(known, total, whenEmpty) ==
    IF total > 0 THEN (2000 * known + total) \div (2 * total) ELSE whenEmpty

MkSentence(o, s, ws) == [original |-> o, simplified |-> s, words |-> ws]

\* the segment + classify loop of process_article over the raw sentences
ClassifySentences(raw, v, dictionary, lexicon) ==
    [i \in 1..Len(raw) |->
        MkSentence(raw[i], raw[i],
                   classify_segments(segment_text(raw[i], v, lexicon), v, dictionary))]

MkStats(ws, due, new, lang, whenEmpty) ==
    [total_words |-> TotalWords(ws),
     known_words |-> KnownWords(ws),
     comprehension_percent |-> Comprehension(KnownWords(ws), TotalWords(ws), whenEmpty),
     due_count |-> Len(due),
     new_count |-> Len(new),
     unknown_count |-> TotalWords(ws) - KnownWords(ws),
     source_lang |-> lang]

\* ProcessedArticle built from classified sentences
MkArticle(sentences, lang, whenEmpty) ==
    LET ws == FlatWords(sentences, 1)
        due == FirstSeen(ws, 1, S_DUE, <<>>)
        new == FirstSeen(ws, 1, S_NEW, <<>>)
    IN [sentences |-> sentences, due_words |-> due, new_words |-> new,
        stats |-> MkStats(ws, due, new, lang, whenEmpty)]

\* variant: the sentences given are counted as words
EmptyArticle_CountsSentences(sentences) ==
    [sentences |-> sentences, due_words |-> <<>>, new_words |-> <<>>,
     stats |-> [total_words |-> Len(sentences), known_words |-> 0,
                comprehension_percent |-> 0, due_count |-> 0, new_count |-> 0,
                unknown_count |-> Len(sentences), source_lang |-> "en"]]

\* the degraded and empty results of the English branch
EmptyArticle(sentences) ==
    [sentences |-> sentences, due_words |-> <<>>, new_words |-> <<>>,
     stats |-> [total_words |-> 0, known_words |-> 0, comprehension_percent |-> 0,
                due_count |-> 0, new_count |-> 0, unknown_count |-> 0,
                source_lang |-> "en"]]

NoticeSentence == MkSentence(<<"LLM not available">>, <<"notice">>, <<>>)

\* ---- daily-allowance enforcement of the article endpoint
\* new_word_freq: occurrences tagged NEW of a text over all sentences
NewFreq(sentences, h) ==
    Cardinality(UNION {
        {<<i, j>> : j \in {k \in 1..Len(sentences[i].words) :
                             /\ sentences[i].words[k].status = S_NEW
                             /\ sentences[i].words[k].hanzi = h}}
        : i \in 1..Len(sentences)})

\* stable insertion of w behind every word at least as frequent
RECURSIVE InsertByFreq(_, _, _)
InsertByFreq(sorted, w, sentences) ==
    IF sorted = <<>> THEN <<w>>
    ELSE IF NewFreq(sentences, Head(sorted).hanzi) >= NewFreq(sentences, w.hanzi)
    THEN <<Head(sorted)>> \o InsertByFreq(Tail(sorted), w, sentences)
    ELSE <<w>> \o sorted

\* sorted(result.new_words, key=frequency, reverse=True)
RECURSIVE SortByFreq(_, _, _)
SortByFreq(ws, n, sentences) ==
    IF n = 0 THEN <<>>
    ELSE InsertByFreq(SortByFreq(ws, n - 1, sentences), ws[n], sentences)

\* the condition of the enforcement branch
OverAllowance(new_words, effective_max_new) ==
    new_words # <<>> /\ Len(new_words) > effective_max_new

\* variant: the first words in document order are kept, without ranking
AllowedNewWords_DocumentOrder(article, effective_max_new) ==
    IF OverAllowance(article.new_words, effective_max_new)
    THEN SubSeq(article.new_words, 1, effective_max_new)
    ELSE article.new_words

\* allowed_new_words
AllowedNewWords(article, effective_max_new) ==
    IF OverAllowance(article.new_words, effective_max_new)
    THEN SubSeq(SortByFreq(article.new_words, Len(article.new_words), article.sentences),
                1, effective_max_new)
    ELSE article.new_words

\* excess_hanzi
ExcessHanzi(article, effective_max_new) ==
    IF OverAllowance(article.new_words, effective_max_new)
    THEN Keys(article.new_words) \ Keys(AllowedNewWords(article, effective_max_new))
    ELSE {}

\* the loop that re-tags excess new words in the sentences
DemoteWord(w, excess) ==
    IF w.hanzi \in excess /\ w.status = S_NEW THEN [w EXCEPT !.status = S_UNKNOWN] ELSE w

DemoteSentences(sentences, excess) ==
    [i \in 1..Len(sentences) |->
        [sentences[i] EXCEPT !.words =
            [j \in 1..Len(sentences[i].words) |-> DemoteWord(sentences[i].words[j], excess)]]]

\* the registry objects that loop writes to: a token that is the stored
\* object of self.vocab shares its status field with the registry
DemotedKeys(sentences, excess) ==
    {h \in excess : \E i \in 1..Len(sentences) : \E j \in 1..Len(sentences[i].words) :
        /\ sentences[i].words[j].hanzi = h
        /\ sentences[i].words[j].status = S_NEW
        /\ sentences[i].words[j].obj = "vocab"}

DemoteRegistry(v, sentences, excess) ==
    [i \in 1..Len(v) |->
        IF v[i].hanzi \in DemotedKeys(sentences, excess)
        THEN [v[i] EXCEPT !.status = S_UNKNOWN] ELSE v[i]]

\* ------------------------------------------------------------------ inputs
\* article texts a client submits or a fetch returns
TextStation == HuoCheZhan \o De \o Mao \o Period
TextRanked == Mao \o Mao \o Mao \o HuoCheZhan \o HuoChe \o HuoChe
TextEnglish == <<"a", "b", "sp", "a">>

\* ten counted words, seven of them basic vocabulary
TextTen == De \o De \o De \o De \o De \o De \o De \o Mao \o Mao \o Mao

ArticleTexts == {TextStation, TextRanked, TextEnglish, TextTen}

\* rewritten forms the LLM answers with
RewriteTexts == {Mao \o De \o HuoChe}

\* a text of two sentences, and the rewritten forms answered for it: the
\* second sentence as it is, and one that names the station again
TextTwo == HuoCheZhan \o Period \o Mao \o De \o HuoChe

\* a page that names the panda only
TextPanda == DaXiongMao

TwoRewrites == {Mao \o De \o HuoChe, HuoCheZhan \o De \o Mao}

\* translations the LLM answers with: lists of Chinese sentences
Translations == {<<>>, <<HuoCheZhan \o Period, Mao>>, <<Period>>}

\* texts looked up through the word endpoint
WordTexts == {HuoCheZhan, HuoChe, CheZhan, Huo, Che, Xiong, Mao, De}

\* the article requests that can be in flight at once, and the one of the
\* scenarios that process requests one after another
Reqs == {"r1", "r2"}

OneReq == {"r1"}

\* texts given to split_sentences: every text of at most MaxLen characters
SplitAlphabet == {"a", "sp", "period", "qmark"}

SplitTexts == UNION {[1..k -> SplitAlphabet] : k \in 0..MaxLen}

\* sentence texts given to segment_text
SegmentTexts ==
    {ShiWuFenZhong \o HuoCheZhan \o Period,
     ShiYiYue \o De \o Mao,
     <<"shi", "yi">> \o HuoChe,
     TextRanked, TextStation, <<>>}

\* base tokens given to _split_numeric_compounds
NumericSegments ==
    {ShiWuFenZhong, ShiYiYue, <<"shi", "yue">>, <<"shi", "yi", "wu">>, HuoCheZhan,
     <<"shi", "yi">> \o HuoChe, <<"yi">> \o HuoCheZhan, <<"shi", "yi">> \o Mao,
     <<"shi">> \o FenZhong \o <<"yi">>, <<"huo", "shi", "yue">>}

\* the lists of at most two base tokens
SegmentLists == UNION {[1..k -> NumericSegments] : k \in 0..2}

\* texts given to detect_language: every text of at most MaxLen characters
\* over a Latin letter, a CJK ideograph, a punctuation mark and a kana letter
DetectAlphabet == {"a", "huo", "period", "ka"}

DetectTexts == UNION {[1..k -> DetectAlphabet] : k \in 0..MaxLen}

\* tokens given to classify_segments, and the lists of at most two of them
ClassifyTokens ==
    {<<"underscore">>, Period, <<"sp">>, <<"sp", "sp">>, <<"dash">>, HuoChe, Mao,
     HuoCheZhan}

TokenLists == UNION {[1..k -> ClassifyTokens] : k \in 0..2}

\* ------------------------------------------------------------------ state
VARIABLES
    vocab,              \* VocabManager.vocab, in insertion order
    selected_decks,     \* VocabManager.selected_decks
    introduced_today,   \* VocabManager._introduced_today
    introduced_date,    \* VocabManager._introduced_date (0 is the empty string)
    daily_new_limit,    \* VocabManager._daily_new_limit
    today,              \* date.today()
    cedict,             \* CEDICT
    jieba_words,        \* words given to jieba.add_word so far
    sel,                \* the deck-selection request in flight
    art,                \* the article requests in flight
    ret                 \* the last response

vars == <<vocab, selected_decks, introduced_today, introduced_date, daily_new_limit,
          today, cedict, jieba_words, sel, art, ret>>

DefaultLimit == 5

\* no response yet: the request last started is suspended at an await
Pending == [op |-> "pending"]

IdleSel == [pc |-> "idle", todo |-> <<>>, stats |-> ZeroStats]

IdleReq == [pc |-> "idle", eff |-> 0, rewrite |-> FALSE, source_lang |-> "auto",
            article |-> EmptyArticle(<<>>)]

Init ==
    /\ vocab = <<>>
    /\ selected_decks = <<>>
    /\ introduced_today = {}
    /\ introduced_date = 0
    /\ daily_new_limit = DefaultLimit
    /\ today = 1
    /\ \E file_exists \in BOOLEAN : cedict = load_cedict(file_exists)
    /\ jieba_words = {}
    /\ sel = IdleSel
    /\ art = [r \in Reqs |-> IdleReq]
    /\ ret = [op |-> "none"]

\* ---- object identity of the words an article in flight holds
\* after self.vocab.clear() the held objects are no longer the stored ones
DetachWord(w) == IF w.obj = "vocab" THEN [w EXCEPT !.obj = "detached"] ELSE w

\* a held object that is the stored one shows the registry's current fields
SyncWord(w, v) == IF w.obj = "vocab" THEN v[IndexOf(v, w.hanzi)] ELSE w

\* a held object after the registry is cleared (detach) or written (v)
HeldWord(w, v, detach) == IF detach THEN DetachWord(w) ELSE SyncWord(w, v)

MapWords(article, v, detach) ==
    [article EXCEPT
        !.sentences = [i \in 1..Len(article.sentences) |->
            [article.sentences[i] EXCEPT !.words =
                [j \in 1..Len(article.sentences[i].words) |->
                    HeldWord(article.sentences[i].words[j], v, detach)]]],
        !.due_words = [i \in 1..Len(article.due_words) |->
                          HeldWord(article.due_words[i], v, detach)],
        !.new_words = [i \in 1..Len(article.new_words) |->
                          HeldWord(article.new_words[i], v, detach)]]

DetachAll(a) ==
    [r \in Reqs |-> [a[r] EXCEPT !.article = MapWords(a[r].article, <<>>, TRUE)]]

SyncAll(a, v) ==
    [r \in Reqs |-> [a[r] EXCEPT !.article = MapWords(a[r].article, v, FALSE)]]

\* ------------------------------------------------------------------ clock
DayPasses ==
    /\ today < MaxDay
    /\ today' = today + 1
    /\ UNCHANGED <<vocab, selected_decks, introduced_today, introduced_date,
                   daily_new_limit, cedict, jieba_words, sel, art, ret>>

\* ------------------------------------------------------------------ deck selection
\* POST /api/decks/select up to its first await: selected_decks is set and the
\* registry cleared; an empty selection completes without awaiting
SelectDecksBegin(deck_names) ==
    /\ sel.pc = "idle"
    /\ selected_decks' = deck_names
    /\ vocab' = <<>>
    /\ art' = DetachAll(art)
    /\ IF deck_names = <<>>
       THEN /\ sel' = IdleSel
            /\ ret' = [op |-> "select", stats |-> ZeroStats,
                       daily_new_limit |-> daily_new_limit]
       ELSE /\ sel' = [pc |-> "loading", todo |-> deck_names, stats |-> ZeroStats]
            /\ ret' = Pending
    /\ UNCHANGED <<introduced_today, introduced_date, daily_new_limit, today, cedict,
                   jieba_words>>

\* one deck loaded: the service answers with the cards of the deck, states
\* giving the scheduler state of each
LoadDeck(states) ==
    /\ sel.pc = "loading"
    /\ DOMAIN states = CardsOf(Head(sel.todo))
    /\ LET loaded == _load_deck_vocab(vocab, Head(sel.todo), states)
       IN /\ vocab' = loaded.vocab
          /\ sel' = [pc |-> IF Len(sel.todo) = 1 THEN "config" ELSE "loading",
                     todo |-> Tail(sel.todo),
                     stats |-> AddStats(sel.stats, loaded.stats)]
    /\ UNCHANGED <<selected_decks, introduced_today, introduced_date, daily_new_limit,
                   today, cedict, jieba_words, art, ret>>

\* variant: the failure empties the registry
LoadDeckFails_Clears ==
    /\ sel.pc = "loading"
    /\ sel' = IdleSel
    /\ vocab' = <<>>
    /\ ret' = [op |-> "error"]
    /\ UNCHANGED <<selected_decks, introduced_today, introduced_date,
                   daily_new_limit, today, cedict, jieba_words, art>>

\* a call to the review service fails while a deck is loading: the error
\* reaches the client and the registry stays as it is
LoadDeckFails ==
    /\ sel.pc = "loading"
    /\ sel' = IdleSel
    /\ ret' = [op |-> "error"]
    /\ UNCHANGED <<vocab, selected_decks, introduced_today, introduced_date,
                   daily_new_limit, today, cedict, jieba_words, art>>

\* update_daily_limit_from_deck, then the new ArticleProcessor; failed tells
\* that get_deck_config raised (the limit is then kept)
UpdateDailyLimit(per_day, failed) ==
    /\ sel.pc = "config"
    /\ daily_new_limit' = IF failed THEN daily_new_limit ELSE per_day
    /\ jieba_words' = _update_jieba_dict(jieba_words, vocab)
    /\ sel' = IdleSel
    /\ ret' = [op |-> "select", stats |-> sel.stats,
               daily_new_limit |-> daily_new_limit']
    /\ UNCHANGED <<vocab, selected_decks, introduced_today, introduced_date, today,
                   cedict, art>>

\* ------------------------------------------------------------------ review
\* POST /api/review, its refresh_card_status: st is the state fetched
RefreshCardStatus(card_id, st) ==
    /\ vocab' = refresh_card_status(vocab, card_id, st)
    /\ art' = SyncAll(art, vocab')
    /\ ret' = [op |-> "review"]
    /\ UNCHANGED <<selected_decks, introduced_today, introduced_date, daily_new_limit,
                   today, cedict, jieba_words, sel>>

\* ------------------------------------------------------------------ lookups
\* variant: a synthesised word is stored in the registry
GetWord_Caching(hanzi) ==
    /\ ret' = [op |-> "word", hanzi |-> hanzi, registry |-> vocab,
               word |-> classify_word(vocab, cedict, hanzi)]
    /\ vocab' = IF hanzi \in Keys(vocab) THEN vocab
                ELSE Append(vocab, [classify_word(vocab, cedict, hanzi) EXCEPT !.obj = "vocab"])
    /\ UNCHANGED <<selected_decks, introduced_today, introduced_date,
                   daily_new_limit, today, cedict, jieba_words, sel, art>>

\* GET /api/word/{hanzi}; the response is kept with the registry it was
\* computed from
GetWord(hanzi) ==
    /\ ret' = [op |-> "word", hanzi |-> hanzi, registry |-> vocab,
               word |-> classify_word(vocab, cedict, hanzi)]
    /\ UNCHANGED <<vocab, selected_decks, introduced_today, introduced_date,
                   daily_new_limit, today, cedict, jieba_words, sel, art>>

\* a call of ArticleProcessor.split_sentences
SplitSentencesCall(text) ==
    /\ ret' = [op |-> "split", text |-> text, sentences |-> split_sentences(text)]
    /\ UNCHANGED <<vocab, selected_decks, introduced_today, introduced_date,
                   daily_new_limit, today, cedict, jieba_words, sel, art>>

\* a call of detect_language
DetectLanguageCall(text) ==
    /\ ret' = [op |-> "detect", text |-> text, lang |-> detect_language(text)]
    /\ UNCHANGED <<vocab, selected_decks, introduced_today, introduced_date,
                   daily_new_limit, today, cedict, jieba_words, sel, art>>

\* a call of ArticleProcessor.segment_text
SegmentTextCall(text) ==
    /\ ret' = [op |-> "segment", text |-> text, registry |-> vocab,
               tokens |-> segment_text(text, vocab, JiebaBase \cup jieba_words)]
    /\ UNCHANGED <<vocab, selected_decks, introduced_today, introduced_date,
                   daily_new_limit, today, cedict, jieba_words, sel, art>>

\* a call of ArticleProcessor._split_numeric_compounds
SplitNumericCall(segments) ==
    /\ ret' = [op |-> "numeric", segments |-> segments, registry |-> vocab,
               tokens |-> _split_numeric_compounds(segments, vocab)]
    /\ UNCHANGED <<vocab, selected_decks, introduced_today, introduced_date,
                   daily_new_limit, today, cedict, jieba_words, sel, art>>

\* a call of ArticleProcessor.classify_segments
ClassifySegmentsCall(segments) ==
    /\ ret' = [op |-> "classify", segments |-> segments, registry |-> vocab,
               words |-> classify_segments(segments, vocab, cedict)]
    /\ UNCHANGED <<vocab, selected_decks, introduced_today, introduced_date,
                   daily_new_limit, today, cedict, jieba_words, sel, art>>

\* GET /api/vocab/daily-stats
GetDailyStats ==
    LET reset == _check_date_reset(introduced_today, introduced_date, today)
    IN /\ introduced_today' = reset.today
       /\ introduced_date' = reset.date
       /\ ret' = [op |-> "daily_stats",
                  daily_limit |-> daily_new_limit,
                  introduced_today |-> Cardinality(reset.today),
                  remaining |-> RemainingOf(daily_new_limit, reset.today),
                  words |-> reset.today]
       /\ UNCHANGED <<vocab, selected_decks, daily_new_limit, today, cedict,
                      jieba_words, sel, art>>

\* ------------------------------------------------------------------ article endpoint
\* variant: a budget given is used without regard to the allowance left
EffectiveMaxNew_BudgetOnly(max_new_words, remaining_allowance) ==
    IF max_new_words # 0 THEN max_new_words ELSE remaining_allowance

\* effective_max_new of POST /api/article/process
EffectiveMaxNew(max_new_words, remaining_allowance) ==
    Min(IF max_new_words # 0 THEN max_new_words ELSE remaining_allowance,
        remaining_allowance)

\* the response after the allowance is enforced on the processor's result
EnforcedArticle(article, effective_max_new, remaining_after) ==
    LET allowed == AllowedNewWords(article, effective_max_new)
        excess == ExcessHanzi(article, effective_max_new)
    IN [sentences |-> DemoteSentences(article.sentences, excess),
        due_words |-> article.due_words,
        new_words |-> allowed,
        stats |-> [article.stats EXCEPT !.new_count =
                      IF OverAllowance(article.new_words, effective_max_new)
                      THEN Len(allowed) ELSE @],
        daily_new_remaining |-> remaining_after]

\* the endpoint from the processor's result to its response: enforcement,
\* mark_words_introduced, the final allowance read. it and idate are
\* _introduced_today and _introduced_date as the handler finds them
Finish(r, article, effective_max_new, jw, it, idate) ==
    LET allowed == AllowedNewWords(article, effective_max_new)
        excess == ExcessHanzi(article, effective_max_new)
        reset == _check_date_reset(it, idate, today)
        marked == IF allowed # <<>> THEN reset.today \cup Keys(allowed) ELSE reset.today
        v == DemoteRegistry(vocab, article.sentences, excess)
    IN /\ vocab' = v
       /\ introduced_today' = marked
       /\ introduced_date' = reset.date
       /\ jieba_words' = jw
       /\ art' = SyncAll([art EXCEPT ![r] = IdleReq], v)
       /\ ret' = [op |-> "article",
                  found |-> article,
                  effective_max_new |-> effective_max_new,
                  doc |-> EnforcedArticle(article, effective_max_new,
                                          RemainingOf(daily_new_limit, marked))]
       /\ UNCHANGED <<selected_decks, daily_new_limit, today, cedict, sel>>

\* ArticleProcessor.process_article from the language decision on, up to its
\* next await or to the response; llm_available is what
\* llm_service.is_available() answers
Proceed(r, text, rewrite, source_lang, effective_max_new, it, idate, llm_available) ==
    LET lang == IF source_lang = "auto" THEN detect_language(text) ELSE source_lang
        jw == _update_jieba_dict(jieba_words, vocab)
        article == MkArticle(
            ClassifySentences(split_sentences(text), vocab, cedict, JiebaBase \cup jw),
            "zh", 0)
    IN IF lang = "en"
       THEN IF llm_available
            THEN /\ art' = [art EXCEPT ![r] =
                        [IdleReq EXCEPT !.pc = "translate", !.eff = effective_max_new]]
                 /\ introduced_today' = it
                 /\ introduced_date' = idate
                 /\ ret' = Pending
                 /\ UNCHANGED <<vocab, selected_decks, daily_new_limit, today, cedict,
                                jieba_words, sel>>
            ELSE Finish(r, EmptyArticle(<<NoticeSentence>>), effective_max_new,
                        jieba_words, it, idate)
       ELSE IF rewrite /\ llm_available
            THEN /\ art' = [art EXCEPT ![r] =
                        [IdleReq EXCEPT !.pc = "rewrite", !.eff = effective_max_new,
                                        !.article = article]]
                 /\ jieba_words' = jw
                 /\ introduced_today' = it
                 /\ introduced_date' = idate
                 /\ ret' = Pending
                 /\ UNCHANGED <<vocab, selected_decks, daily_new_limit, today, cedict,
                                sel>>
            ELSE Finish(r, article, effective_max_new, jw, it, idate)

\* POST /api/article/process up to its first await or to its response
ArticleRequest(r, text, by_url, rewrite, max_new_words, source_lang, llm_available) ==
    /\ art[r].pc = "idle"
    /\ LET reset == _check_date_reset(introduced_today, introduced_date, today)
           remaining_allowance == RemainingOf(daily_new_limit, reset.today)
           effective_max_new == EffectiveMaxNew(max_new_words, remaining_allowance)
       IN IF by_url
          THEN /\ art' = [art EXCEPT ![r] =
                      [IdleReq EXCEPT !.pc = "fetch", !.eff = effective_max_new,
                                      !.rewrite = rewrite, !.source_lang = source_lang]]
               /\ introduced_today' = reset.today
               /\ introduced_date' = reset.date
               /\ ret' = Pending
               /\ UNCHANGED <<vocab, selected_decks, daily_new_limit, today, cedict,
                              jieba_words, sel>>
          ELSE Proceed(r, text, rewrite, source_lang, effective_max_new,
                       reset.today, reset.date, llm_available)

\* fetch_article returns the page text
FetchDone(r, text, llm_available) ==
    /\ art[r].pc = "fetch"
    /\ Proceed(r, text, art[r].rewrite, art[r].source_lang, art[r].eff,
               introduced_today, introduced_date, llm_available)

\* fetch_article raises: the endpoint answers 500
FetchFails(r) ==
    /\ art[r].pc = "fetch"
    /\ art' = [art EXCEPT ![r] = IdleReq]
    /\ ret' = [op |-> "error"]
    /\ UNCHANGED <<vocab, selected_decks, introduced_today, introduced_date,
                   daily_new_limit, today, cedict, jieba_words, sel>>

\* translate_english_to_chinese returns; _process_english_article runs on
TranslateDone(r, translations) ==
    /\ art[r].pc = "translate"
    /\ IF translations = <<>>
       THEN Finish(r, EmptyArticle(<<>>), art[r].eff, jieba_words,
                   introduced_today, introduced_date)
       ELSE LET jw == _update_jieba_dict(jieba_words, vocab)
                sentences == [i \in 1..Len(translations) |->
                    MkSentence(<<"english">>, translations[i],
                        classify_segments(
                            segment_text(translations[i], vocab, JiebaBase \cup jw),
                            vocab, cedict))]
            IN Finish(r, MkArticle(sentences, "en", 1000), art[r].eff, jw,
                      introduced_today, introduced_date)

\* variant: a rewritten sentence keeps the token list of its original
RewriteDone_KeepsTokens(r, rewritten, text) ==
    /\ art[r].pc = "rewrite"
    /\ rewritten \subseteq 1..Len(art[r].article.sentences)
    /\ LET old == art[r].article.sentences
           sentences == [i \in 1..Len(old) |->
               IF i \in rewritten /\ text # old[i].original
               THEN MkSentence(old[i].original, text, old[i].words)
               ELSE old[i]]
       IN Finish(r, [art[r].article EXCEPT !.sentences = sentences], art[r].eff,
                 jieba_words, introduced_today, introduced_date)

\* rewrite_article returns: the sentences in rewritten get the new text, and
\* process_article classifies again those whose text changed
RewriteDone(r, rewritten, text) ==
    /\ art[r].pc = "rewrite"
    /\ rewritten \subseteq 1..Len(art[r].article.sentences)
    /\ LET old == art[r].article.sentences
           sentences == [i \in 1..Len(old) |->
               IF i \in rewritten /\ text # old[i].original
               THEN MkSentence(old[i].original, text,
                        classify_segments(
                            segment_text(text, vocab, JiebaBase \cup jieba_words),
                            vocab, cedict))
               ELSE old[i]]
       IN Finish(r, [art[r].article EXCEPT !.sentences = sentences], art[r].eff,
                 jieba_words, introduced_today, introduced_date)

\* ------------------------------------------------------------------ specification
\* scheduler states for the cards of the deck being loaded
AnswersFor(answers) ==
    UNION {[CardsOf(d) -> answers] : d \in Decks}

Next ==
    \/ DayPasses
    \/ \E deck_names \in DeckSelections : SelectDecksBegin(deck_names)
    \/ \E states \in AnswersFor(CardStates) : LoadDeck(states)
    \/ LoadDeckFails
    \/ \E per_day \in PerDayValues, failed \in BOOLEAN : UpdateDailyLimit(per_day, failed)
    \/ \E card_id \in 1..Len(Cards), st \in CardStates : RefreshCardStatus(card_id, st)
    \/ \E hanzi \in WordTexts : GetWord(hanzi)
    \/ GetDailyStats
    \/ \E r \in Reqs, text \in ArticleTexts, by_url \in BOOLEAN, rewrite \in BOOLEAN,
          max_new_words \in 0..MaxBudget, source_lang \in {"auto", "en", "zh"},
          llm \in BOOLEAN :
          ArticleRequest(r, text, by_url, rewrite, max_new_words, source_lang, llm)
    \/ \E r \in Reqs, text \in ArticleTexts, llm \in BOOLEAN : FetchDone(r, text, llm)
    \/ \E r \in Reqs : FetchFails(r)
    \/ \E r \in Reqs, translations \in Translations : TranslateDone(r, translations)
    \/ \E r \in Reqs, rewritten \in SUBSET {1, 2}, text \in RewriteTexts :
          RewriteDone(r, rewritten, text)

Spec == Init /\ [][Next]_vars

\* ---- the registry and its lookups: the daily allowance and the article
\* endpoint stay at rest, and the deck configuration leaves the limit alone
NextRegistry ==
    \/ \E deck_names \in DeckSelections : SelectDecksBegin(deck_names)
    \/ \E states \in AnswersFor(CardStates) : LoadDeck(states)
    \/ LoadDeckFails
    \/ UpdateDailyLimit(DefaultLimit, TRUE)
    \/ \E card_id \in 1..Len(Cards), st \in CardStates : RefreshCardStatus(card_id, st)
    \/ \E hanzi \in WordTexts : GetWord(hanzi)

SpecRegistry == Init /\ [][NextRegistry]_vars

\* ---- the article endpoint within one day, with both decks selected and
\* every card new or the station card due
InitLoaded == Init /\ cedict = load_cedict(TRUE)

\* every card new, or the cards of the station due and the others new
ArticleAnswers ==
    LET allNew == [i \in 1..Len(Cards) |-> <<0, 0>>]
        stationDue == [i \in 1..Len(Cards) |->
                          IF Cards[i].hanzi = HuoCheZhan THEN <<2, 0>> ELSE <<0, 0>>]
    IN UNION {{[i \in CardsOf(d) |-> allNew[i]], [i \in CardsOf(d) |-> stationDue[i]]}
              : d \in Decks}

NextArticle ==
    \/ SelectDecksBegin(<<"D1", "D2">>)
    \/ \E states \in ArticleAnswers : LoadDeck(states)
    \/ UpdateDailyLimit(2, FALSE)
    \/ \E r \in OneReq, text \in ArticleTexts, rewrite \in BOOLEAN,
          max_new_words \in 0..MaxBudget, llm \in BOOLEAN :
          ArticleRequest(r, text, FALSE, rewrite, max_new_words, "auto", llm)
    \/ \E r \in OneReq, translations \in Translations : TranslateDone(r, translations)
    \/ \E r \in OneReq, rewritten \in SUBSET {1, 2}, text \in RewriteTexts :
          RewriteDone(r, rewritten, text)

SpecArticle == InitLoaded /\ [][NextArticle]_vars

\* ---- the daily allowance over several days: one article text, processed
\* directly or fetched, and the limit the deck configuration sets
NextDaily ==
    \/ DayPasses
    \/ SelectDecksBegin(<<"D1", "D2">>)
    \/ \E states \in AnswersFor({<<0, 0>>}) : LoadDeck(states)
    \/ \E per_day \in PerDayValues, failed \in BOOLEAN : UpdateDailyLimit(per_day, failed)
    \/ GetDailyStats
    \/ \E r \in OneReq, by_url \in BOOLEAN, max_new_words \in 0..MaxBudget :
          ArticleRequest(r, TextRanked, by_url, FALSE, max_new_words, "zh", FALSE)
    \/ \E r \in OneReq : FetchDone(r, TextRanked, FALSE)
    \/ \E r \in OneReq : FetchFails(r)

SpecDaily == InitLoaded /\ [][NextDaily]_vars

\* ---- deck loading and card refresh, every kind of scheduler state, with
\* reviews submitted only while no selection is in progress
NextLoad ==
    \/ \E deck_names \in LoadSelections : SelectDecksBegin(deck_names)
    \/ \E states \in AnswersFor(LoadStates) : LoadDeck(states)
    \/ LoadDeckFails
    \/ UpdateDailyLimit(DefaultLimit, TRUE)
    \/ /\ sel.pc = "idle"
       /\ \E card_id \in 1..Len(Cards), st \in AllCardStates \cup {NoCardInfo} :
             RefreshCardStatus(card_id, st)

SpecLoad == Init /\ [][NextLoad]_vars

\* ---- rewriting while decks are reselected: a two-sentence text, the LLM
\* available or not, its answer changing any of the sentences
NextRewrite ==
    \/ \E deck_names \in {<<"D2">>, <<"D1">>} : SelectDecksBegin(deck_names)
    \/ \E states \in ArticleAnswers : LoadDeck(states)
    \/ UpdateDailyLimit(DefaultLimit, TRUE)
    \/ \E rewrite \in BOOLEAN, llm \in BOOLEAN :
          ArticleRequest("r1", TextTwo, FALSE, rewrite, 0, "zh", llm)
    \/ \E rewritten \in SUBSET {1, 2}, text \in TwoRewrites :
          RewriteDone("r1", rewritten, text)

SpecRewrite == InitLoaded /\ [][NextRewrite]_vars

\* ---- two article requests by URL in flight at once, started after the
\* decks are loaded (every card new) and the limit is set to 2
NextOverlap ==
    \/ SelectDecksBegin(<<"D1", "D2">>)
    \/ \E states \in AnswersFor({<<0, 0>>}) : LoadDeck(states)
    \/ UpdateDailyLimit(2, FALSE)
    \/ /\ sel.pc = "idle"
       /\ selected_decks # <<>>
       /\ \E r \in Reqs, max_new_words \in 0..MaxBudget :
             ArticleRequest(r, TextStation, TRUE, FALSE, max_new_words, "zh", FALSE)
    \/ \E r \in Reqs, text \in {TextStation, TextRanked, TextPanda} :
          FetchDone(r, text, FALSE)

SpecOverlap == InitLoaded /\ [][NextOverlap]_vars

\* ---- language detection called on its own, and the language hint of
\* article requests, with the LLM unavailable and no deck selected
NextDetect ==
    \/ \E text \in DetectTexts : DetectLanguageCall(text)
    \/ \E text \in {TextEnglish, TextStation}, source_lang \in {"auto", "en", "zh"} :
          ArticleRequest("r1", text, FALSE, FALSE, 0, source_lang, FALSE)

SpecDetect == InitLoaded /\ [][NextDetect]_vars

\* ---- split_sentences called on its own, on every text of the bound
NextSplit == \E text \in SplitTexts : SplitSentencesCall(text)

SpecSplit == InitLoaded /\ [][NextSplit]_vars

\* ---- tokenisation and classification of tokens called on their own, with
\* the registry empty or loaded from the decks D2, D3 and D4
NextSegment ==
    \/ \E deck_names \in {<<"D2">>, <<"D3", "D2">>, <<"D4", "D2">>} :
          SelectDecksBegin(deck_names)
    \/ \E states \in AnswersFor({<<0, 0>>}) : LoadDeck(states)
    \/ UpdateDailyLimit(DefaultLimit, TRUE)
    \/ \E text \in SegmentTexts : SegmentTextCall(text)
    \/ \E segments \in SegmentLists : SplitNumericCall(segments)
    \/ \E segments \in TokenLists : ClassifySegmentsCall(segments)

SpecSegment == InitLoaded /\ [][NextSegment]_vars

\* ------------------------------------------------------------------ properties
\* the registry entries a text may inherit from: strictly longer, and
\* starting or ending with the text
Candidates(v, t) ==
    {i \in 1..Len(v) :
        /\ Len(v[i].hanzi) > Len(t)
        /\ \/ \A k \in 1..Len(t) : v[i].hanzi[k] = t[k]
           \/ \A k \in 1..Len(t) : v[i].hanzi[Len(v[i].hanzi) - Len(t) + k] = t[k]}

FirstOf(S) == CHOOSE i \in S : \A k \in S : i <= k

IsLookup == ret.op = "word"

OnlyStationDue(v) ==
    /\ Len(v) = 1
    /\ v[1].hanzi = HuoCheZhan
    /\ v[1].status = S_DUE

\* C6: with a registry holding only the station word (three characters) with
\* status DUE, classifying its two-character prefix returns status DUE and a
\* definition that is the back-reference to the station word.
C6_PrefixInheritsDue ==
    (IsLookup /\ ret.hanzi = HuoChe /\ OnlyStationDue(ret.registry))
        => /\ ret.word.status = S_DUE
           /\ ret.word.definition = <<"->">> \o HuoCheZhan \o <<":">> \o ret.registry[1].definition

\* C7: a text that is neither a registry key nor basic vocabulary inherits
\* status, card and deck from the first registry entry, in iteration order,
\* that is strictly longer and starts or ends with it, with the back-reference
\* definition; when no entry qualifies (the text occurs only inside an entry,
\* or no entry is longer) nothing is inherited.
C7_PartialMatchInherits ==
    (IsLookup /\ ret.hanzi \notin Keys(ret.registry) /\ ret.hanzi \notin BASIC_VOCAB)
        => LET c == Candidates(ret.registry, ret.hanzi) IN
           IF c # {}
           THEN LET m == ret.registry[FirstOf(c)] IN
                /\ ret.word.hanzi = ret.hanzi
                /\ ret.word.status = m.status
                /\ ret.word.card_id = m.card_id
                /\ ret.word.deck_name = m.deck_name
                /\ ret.word.definition = <<"->">> \o m.hanzi \o <<":">> \o m.definition
           ELSE /\ ret.word.status = S_UNKNOWN
                /\ ret.word.card_id = NoCard
                /\ ret.word.deck_name = NoDeck

C7_Witness ==
    /\ IsLookup
    /\ ret.hanzi = CheZhan
    /\ OnlyStationDue(ret.registry)
    /\ ret.word.status = S_DUE
    /\ ret.word.card_id = 1

DictDefs(dictionary, t) == {e[2] : e \in {x \in dictionary : x[1] = t}}

\* C9: a lookup miss is no error: a text matching no registry key, no basic
\* word and no partial compound gives status UNKNOWN with no card and no
\* deck, and the definition of the dictionary store, or the empty string when
\* the store has no entry for it or the resource is missing.
C9_MissFallsBackToDictionary ==
    (/\ IsLookup
     /\ ret.hanzi \notin Keys(ret.registry)
     /\ ret.hanzi \notin BASIC_VOCAB
     /\ Candidates(ret.registry, ret.hanzi) = {})
        => /\ ret.word.hanzi = ret.hanzi
           /\ ret.word.status = S_UNKNOWN
           /\ ret.word.card_id = NoCard
           /\ ret.word.deck_name = NoDeck
           /\ IF DictDefs(cedict, ret.hanzi) = {}
              THEN ret.word.definition = <<>>
              ELSE DictDefs(cedict, ret.hanzi) = {ret.word.definition}
           /\ (cedict # {} /\ ret.hanzi = Mao) => ret.word.definition = <<"cat">>
           /\ cedict = load_cedict(FALSE) => ret.word.definition = <<>>

C9_Witness ==
    /\ IsLookup
    /\ ret.hanzi = Mao
    /\ ret.registry = <<>>
    /\ ret.word.status = S_UNKNOWN
    /\ ret.word.definition = <<"cat">>

MarkedBy(response) ==
    IF response.op = "article"
    THEN {response.doc.new_words[i].hanzi : i \in 1..Len(response.doc.new_words)}
    ELSE {}

Clamped(limit, n) == IF limit > n THEN limit - n ELSE 0

\* C3: after every sequence of markings within a day, repeats included, the
\* remaining allowance reported is max(0, limit - number of distinct texts
\* introduced that day), the marked texts are in the set, and the value is
\* never negative.
C3_RemainingAllowance ==
    /\ ret.op = "daily_stats" =>
          /\ ret.words = introduced_today
          /\ ret.daily_limit = daily_new_limit
          /\ ret.introduced_today = Cardinality(introduced_today)
          /\ ret.remaining = Clamped(daily_new_limit, Cardinality(introduced_today))
          /\ ret.remaining >= 0
    /\ ret.op = "article" =>
          /\ MarkedBy(ret) \subseteq introduced_today
          /\ ret.doc.daily_new_remaining =
                 Clamped(daily_new_limit, Cardinality(introduced_today))
          /\ ret.doc.daily_new_remaining >= 0

C3_Witness ==
    /\ ret.op = "daily_stats"
    /\ Cardinality(introduced_today) > daily_new_limit
    /\ ret.remaining = 0

\* C4: a date boundary resets the introduced set exactly once: the stored date
\* changes only to the current date and only when it differed, the step that
\* changes it leaves in the set no text but those it marks, and while the
\* stored date stays the same no step removes a text from the set.
C4_ResetOncePerDate ==
    [][/\ introduced_date' # introduced_date =>
             /\ introduced_date # today
             /\ introduced_date' = today
             /\ introduced_today' \subseteq MarkedBy(ret')
       /\ introduced_date' = introduced_date =>
             introduced_today \subseteq introduced_today']_vars

C4_Witness ==
    /\ today = MaxDay
    /\ introduced_date = today
    /\ introduced_today # {}
    /\ ret.op = "daily_stats"
    /\ ret.words = introduced_today

\* steps of the operations that read the remaining allowance, mark texts or
\* read the daily statistics
DailyReadStep ==
    \/ GetDailyStats
    \/ \E r \in Reqs, by_url \in BOOLEAN, max_new_words \in 0..MaxBudget :
          ArticleRequest(r, TextRanked, by_url, FALSE, max_new_words, "zh", FALSE)
    \/ \E r \in Reqs : FetchDone(r, TextRanked, FALSE)

\* steps that set the daily limit
SetDailyLimitStep ==
    \E per_day \in PerDayValues, failed \in BOOLEAN : UpdateDailyLimit(per_day, failed)

\* C5 (as stated): each of the four daily operations, setting the limit
\* included, observes a date change: when it is the first call after the date
\* changed, the set holds on its return no text but those the call marks.
C5_AllFourObserveDate ==
    [][(today # introduced_date /\ (DailyReadStep \/ SetDailyLimitStep)) =>
           introduced_today' \subseteq MarkedBy(ret')]_vars

\* C5 (amended): reading the remaining allowance, marking and reading the
\* daily statistics observe a date change and reset the set; setting the
\* limit reads no date and leaves the set and the stored date as they are.
C5_ThreeObserveDate ==
    [][/\ (today # introduced_date /\ DailyReadStep) =>
             /\ introduced_date' = today
             /\ introduced_today' \subseteq MarkedBy(ret')
       /\ SetDailyLimitStep =>
             /\ introduced_today' = introduced_today
             /\ introduced_date' = introduced_date]_vars

C5_Witness ==
    /\ ret.op = "select"
    /\ today = MaxDay
    /\ introduced_date # today
    /\ introduced_today # {}

\* C1 (as stated): processing an article never changes the status of a
\* registry entry, so that no stored entry ever has status UNKNOWN.
C1_NoStoredUnknown ==
    \A i \in 1..Len(vocab) : vocab[i].status \in {S_NEW, S_DUE, S_LEARNED}

\* the positions of the tokens tagged NEW that carry a text
NewTokens(sentences, h) ==
    {p \in UNION {{<<i, j>> : j \in 1..Len(sentences[i].words)} : i \in 1..Len(sentences)} :
        /\ sentences[p[1]].words[p[2]].hanzi = h
        /\ sentences[p[1]].words[p[2]].status = S_NEW}

IsArticle == ret.op = "article"

\* C2: when the document has more distinct new words than the cap, exactly
\* cap of them are kept and no dropped word has more tokens tagged NEW than
\* a kept one; newWords is the kept list, every token tagged NEW of a dropped
\* word is re-tagged UNKNOWN in every sentence and no other token changes, and
\* the kept texts are in the set of texts introduced today.
C2_TopCapKept ==
    (IsArticle /\ Len(ret.found.new_words) > ret.effective_max_new) =>
        LET cap == ret.effective_max_new
            before == ret.found.sentences
            after == ret.doc.sentences
            all == {ret.found.new_words[i].hanzi : i \in 1..Len(ret.found.new_words)}
            kept == {ret.doc.new_words[i].hanzi : i \in 1..Len(ret.doc.new_words)}
        IN /\ Len(ret.doc.new_words) = cap
           /\ Cardinality(kept) = cap
           /\ kept \subseteq all
           /\ \A k \in kept : \A e \in all \ kept :
                 Cardinality(NewTokens(before, k)) >= Cardinality(NewTokens(before, e))
           /\ ret.doc.stats.new_count = cap
           /\ Len(after) = Len(before)
           /\ \A i \in 1..Len(before) :
                 /\ Len(after[i].words) = Len(before[i].words)
                 /\ \A j \in 1..Len(before[i].words) :
                       LET w == before[i].words[j] IN
                       IF w.hanzi \in all \ kept /\ w.status = S_NEW
                       THEN after[i].words[j] = [w EXCEPT !.status = S_UNKNOWN]
                       ELSE after[i].words[j] = w
           /\ \A e \in all \ kept : NewTokens(after, e) = {}
           /\ kept \subseteq introduced_today

C2_Witness ==
    /\ IsArticle
    /\ ret.effective_max_new = 2
    /\ {ret.found.new_words[i].hanzi : i \in 1..Len(ret.found.new_words)}
          = {Mao, HuoCheZhan, HuoChe}
    /\ Cardinality(NewTokens(ret.found.sentences, Mao)) = 3
    /\ Cardinality(NewTokens(ret.found.sentences, HuoCheZhan)) = 1
    /\ Cardinality(NewTokens(ret.found.sentences, HuoChe)) = 2
    /\ {ret.doc.new_words[i].hanzi : i \in 1..Len(ret.doc.new_words)} = {Mao, HuoChe}
    /\ \E j \in 1..Len(ret.doc.sentences[1].words) :
          /\ ret.doc.sentences[1].words[j].hanzi = HuoCheZhan
          /\ ret.doc.sentences[1].words[j].status = S_UNKNOWN

IsSplit == ret.op = "split"

RECURSIVE Concat(_)
Concat(ss) == IF ss = <<>> THEN <<>> ELSE Head(ss) \o Concat(Tail(ss))

\* a text without its whitespace characters
Unspaced(text) == SelectSeq(text, LAMBDA c : c \notin Whitespace)

\* C11 (as stated): the sentences of a text, concatenated in order, give the
\* text again up to whitespace: no character, terminal punctuation included,
\* is dropped or duplicated.
C11_SplitKeepsEveryCharacter ==
    IsSplit => Unspaced(Concat(ret.sentences)) = Unspaced(ret.text)

\* position p of the text belongs to a clause with a non-blank character: the
\* clause around p, or for a terminator the clause its run closes
InKeptClause(text, p) ==
    IF text[p] \notin Terminators
    THEN \E k \in 1..Len(text) :
            /\ text[k] \notin Whitespace
            /\ \A j \in (IF k < p THEN k ELSE p)..(IF k < p THEN p ELSE k) :
                  text[j] \notin Terminators
    ELSE \E k \in 1..(p - 1) :
            /\ text[k] \notin Whitespace
            /\ text[k] \notin Terminators
            /\ \E q \in (k + 1)..p :
                  /\ \A j \in k..(q - 1) : text[j] \notin Terminators
                  /\ \A j \in q..p : text[j] \in Terminators

\* the characters of the kept clauses, in order
KeptText(text) ==
    LET F[i \in 0..Len(text)] ==
            IF i = 0 THEN <<>>
            ELSE IF InKeptClause(text, i) THEN Append(F[i - 1], text[i]) ELSE F[i - 1]
    IN F[Len(text)]

\* every terminator run of the text closes a clause with a non-blank character
\* and the text does not end in whitespace after its last terminator
EveryClauseNonBlank(text) == \A p \in 1..Len(text) : InKeptClause(text, p)

\* C11 (amended): the sentences concatenated in order are the text without its
\* empty or whitespace-only clauses and without the terminator run that closes
\* such a clause; nothing else is dropped, nothing is duplicated or reordered,
\* and a text all of whose clauses are non-blank is reproduced exactly.
C11_SplitDropsBlankClauses ==
    IsSplit =>
        /\ Concat(ret.sentences) = KeptText(ret.text)
        /\ EveryClauseNonBlank(ret.text) => Concat(ret.sentences) = ret.text
        /\ \A i \in 1..Len(ret.sentences) : NonBlank(ret.sentences[i])

C11_Witness ==
    /\ IsSplit
    /\ ret.text = <<"period", "a", "qmark", "sp">>
    /\ ret.sentences = << <<"a", "qmark">> >>

\* C12: the tokens of a sentence text, concatenated in order, are the text:
\* the numeral pass cuts a token in two adjacent pieces and drops, reorders or
\* duplicates no character.
C12_TokensConcatenateToText ==
    ret.op = "segment" => Concat(ret.tokens) = ret.text

C12_Witness ==
    /\ ret.op = "segment"
    /\ ret.text = ShiWuFenZhong \o HuoCheZhan \o Period
    /\ ret.tokens = << <<"shi", "wu">>, FenZhong, HuoCheZhan, Period >>

\* the lengths n at which a base token has its maximal leading numeral run end
\* before the end of the token
NumeralCuts(seg) ==
    {n \in 1..(Len(seg) - 1) :
        /\ \A k \in 1..n : seg[k] \in num_chars
        /\ seg[n + 1] \notin num_chars}

\* what the numeral pass makes of one base token
Pieces(seg, v) ==
    IF /\ Len(seg) > 2
       /\ \E n \in NumeralCuts(seg) :
             \/ SubSeq(seg, n + 1, Len(seg)) \in units
             \/ \E i \in 1..Len(v) : v[i].hanzi = SubSeq(seg, n + 1, Len(seg))
    THEN LET n == CHOOSE n \in NumeralCuts(seg) : TRUE
         IN <<SubSeq(seg, 1, n), SubSeq(seg, n + 1, Len(seg))>>
    ELSE <<seg>>

\* C13: a base token longer than 2 whose maximal leading numeral run is
\* non-empty and shorter than the token becomes the two tokens prefix and
\* suffix when the suffix is a unit or a registry key, and every other token
\* (length at most 2, all numerals, no leading numeral, other suffix) is left
\* as it is; the numeral-and-minutes token gives its numeral and the unit.
C13_NumeralUnitSplit ==
    ret.op = "numeric" =>
        /\ ret.tokens = Concat([i \in 1..Len(ret.segments) |->
                                   Pieces(ret.segments[i], ret.registry)])
        /\ ret.segments = <<ShiWuFenZhong>> => ret.tokens = << <<"shi", "wu">>, FenZhong >>
        /\ \A i \in 1..Len(ret.segments) :
              (\/ Len(ret.segments[i]) <= 2
               \/ \A k \in 1..Len(ret.segments[i]) : ret.segments[i][k] \in num_chars
               \/ ret.segments[i][1] \notin num_chars)
                 => \E j \in 1..Len(ret.tokens) : ret.tokens[j] = ret.segments[i]

C13_Witness ==
    /\ ret.op = "numeric"
    /\ ret.segments = << <<"shi", "yi">> \o HuoChe, <<"shi", "yue">> >>
    /\ ret.tokens = << <<"shi", "yi">>, HuoChe, <<"shi", "yue">> >>

\* C14 (as stated): in every document the pipeline returns the comprehension
\* percentage, in tenths, is 100 * known / total rounded to one decimal, lies
\* between 0 and 100, and is exactly 0 when no token is counted.
C14_ComprehensionPercent ==
    IsArticle =>
        LET st == ret.found.stats
            diff == st.comprehension_percent * st.total_words - 1000 * st.known_words
        IN /\ st.comprehension_percent \in 0..1000
           /\ st.total_words = 0 => st.comprehension_percent = 0
           /\ st.total_words > 0 =>
                 2 * (IF diff < 0 THEN 0 - diff ELSE diff) <= st.total_words

\* the tokens of a document in document order
TokensOf(article) == FlatWords(article.sentences, 1)

\* a token that is neither blank nor made of punctuation only
IsCountedToken(w) ==
    /\ \E k \in 1..Len(w.hanzi) : w.hanzi[k] \notin Whitespace
    /\ \E k \in 1..Len(w.hanzi) : w.hanzi[k] \notin NonWordChars

\* list holds, in order of first occurrence, the first counted token of each
\* text among the tokens with the status
IsFirstSeenList(list, tokens, status) ==
    LET hits == {i \in 1..Len(tokens) :
                    IsCountedToken(tokens[i]) /\ tokens[i].status = status}
        firsts == {i \in hits : \A k \in hits : tokens[k].hanzi = tokens[i].hanzi => i <= k}
    IN /\ Len(list) = Cardinality(firsts)
       /\ \A n \in 1..Len(list) :
             \E i \in firsts :
                /\ list[n] = tokens[i]
                /\ Cardinality({k \in firsts : k < i}) = n - 1

AggregatesMatch(article) ==
    LET tokens == TokensOf(article)
        st == article.stats
    IN /\ IsFirstSeenList(article.due_words, tokens, S_DUE)
       /\ IsFirstSeenList(article.new_words, tokens, S_NEW)
       /\ st.total_words = Cardinality({i \in 1..Len(tokens) : IsCountedToken(tokens[i])})
       /\ st.known_words = Cardinality({i \in 1..Len(tokens) :
                              /\ IsCountedToken(tokens[i])
                              /\ tokens[i].status \in {S_LEARNED, S_DUE}})
       /\ st.known_words <= st.total_words
       /\ st.due_count = Len(article.due_words)
       /\ st.new_count = Len(article.new_words)

\* no sentence of the document was rewritten
Unrewritten(article) ==
    \A i \in 1..Len(article.sentences) :
        article.sentences[i].simplified = article.sentences[i].original

\* C15: in the Chinese branch the aggregation holds in dueWords one entry per
\* distinct counted text classified DUE and in newWords one per distinct
\* counted text classified NEW, each the first occurrence in document order;
\* totalTokens counts the non-blank, non-punctuation tokens, knownTokens those
\* of them LEARNED or DUE, knownTokens <= totalTokens, dueCount and newCount
\* are the lengths of the two lists.
C15_ChineseAggregation ==
    /\ (IsArticle /\ ret.found.stats.source_lang = "zh" /\ Unrewritten(ret.found))
          => AggregatesMatch(ret.found)
    /\ \A r \in Reqs : art[r].pc = "rewrite" => AggregatesMatch(art[r].article)

C15_Witness ==
    /\ IsArticle
    /\ ret.found.stats.source_lang = "zh"
    /\ Unrewritten(ret.found)
    /\ Len(ret.found.due_words) = 1
    /\ ret.found.due_words[1].hanzi = HuoCheZhan
    /\ Len(ret.found.new_words) = 1
    /\ ret.found.new_words[1].hanzi = Mao
    /\ ret.found.stats.total_words = 3
    /\ ret.found.stats.known_words = 2

\* a token that is blank or made only of characters of the punctuation pattern
IsPunctToken(seg) ==
    \A k \in 1..Len(seg) : seg[k] \in Whitespace \/ seg[k] \in PunctPatternChars

\* C16: classifySegments returns one entry per token in the same order; a
\* blank or punctuation token is LEARNED with empty phonetic, empty definition
\* and no card whatever the registry holds, even when its text is a registry
\* key; every other token gets the result of the registry's classify.
C16_ClassifySegments ==
    ret.op = "classify" =>
        /\ Len(ret.words) = Len(ret.segments)
        /\ \A i \in 1..Len(ret.segments) :
              IF IsPunctToken(ret.segments[i])
              THEN /\ ret.words[i].hanzi = ret.segments[i]
                   /\ ret.words[i].status = S_LEARNED
                   /\ ret.words[i].pinyin = <<>>
                   /\ ret.words[i].definition = <<>>
                   /\ ret.words[i].card_id = NoCard
                   /\ ret.words[i].deck_name = NoDeck
              ELSE ret.words[i] = classify_word(ret.registry, cedict, ret.segments[i])

C16_Witness ==
    /\ ret.op = "classify"
    /\ ret.segments = << <<"underscore">>, HuoChe >>
    /\ \E i \in 1..Len(ret.registry) : ret.registry[i].hanzi = <<"underscore">>
    /\ ret.words[1].status = S_LEARNED
    /\ ret.words[1].card_id = NoCard
    /\ ret.words[2].status = S_NEW
    /\ ret.words[2].card_id = 2

\* the cards of the given decks with a non-empty text
CardsIn(deck_names) ==
    {i \in 1..Len(Cards) :
        /\ Cards[i].hanzi # <<>>
        /\ \E n \in 1..Len(deck_names) : deck_names[n] = Cards[i].deck}

\* card i comes before card k in deck-then-card order
ComesBefore(deck_names, i, k) ==
    LET pos(c) == CHOOSE n \in 1..Len(deck_names) : deck_names[n] = Cards[c].deck
    IN pos(i) < pos(k) \/ (pos(i) = pos(k) /\ i <= k)

\* the first card of each text
FirstCards(deck_names) ==
    {i \in CardsIn(deck_names) :
        \A k \in CardsIn(deck_names) :
            Cards[k].hanzi = Cards[i].hanzi => ComesBefore(deck_names, i, k)}

\* v holds one entry per first card, with the fields of that card, in
\* deck-then-card order
HoldsExactly(v, deck_names) ==
    /\ Len(v) = Cardinality(FirstCards(deck_names))
    /\ \A n \in 1..Len(v) :
          \E i \in FirstCards(deck_names) :
             /\ v[n].hanzi = Cards[i].hanzi
             /\ v[n].card_id = Cards[i].cardId
             /\ v[n].deck_name = Cards[i].deck
             /\ v[n].definition = Cards[i].definition
             /\ Cardinality({k \in FirstCards(deck_names) : ComesBefore(deck_names, k, i)}) = n
    /\ \A n \in 1..Len(v) : v[n].status \in {S_NEW, S_DUE, S_LEARNED}

CountOf(v, status) == Cardinality({n \in 1..Len(v) : v[n].status = status})

StatsMatch(stats, v) ==
    /\ stats.total = Len(v)
    /\ stats.new = CountOf(v, S_NEW)
    /\ stats.due = CountOf(v, S_DUE)
    /\ stats.learned = CountOf(v, S_LEARNED)
    /\ stats.new + stats.due + stats.learned = stats.total

\* C17: when the load of the selected decks completes the registry holds
\* exactly the distinct non-empty texts of their cards, nothing of an earlier
\* selection, for each text the entry of its first card in deck-then-card
\* order, and the stats give the registry size and the number of entries of
\* each status.
C17_LoadFromDecks ==
    /\ sel.pc = "config" =>
          /\ HoldsExactly(vocab, selected_decks)
          /\ StatsMatch(sel.stats, vocab)
    /\ (ret.op = "select" /\ selected_decks = <<>> /\ sel.pc = "idle") =>
          /\ vocab = <<>>
          /\ StatsMatch(ret.stats, vocab)

C17_Witness ==
    /\ sel.pc = "config"
    /\ selected_decks = <<"D2", "D1">>
    /\ Len(vocab) = 3
    /\ vocab[2].hanzi = HuoCheZhan
    /\ vocab[2].card_id = 3
    /\ vocab[2].status = S_DUE
    /\ sel.stats = [total |-> 3, new |-> 1, due |-> 1, learned |-> 1]

\* the status the rule gives a scheduler state
DerivedStatus(st) ==
    CASE st[1] = 0 -> S_NEW
      [] st[1] = 1 \/ st[1] = 3 -> S_DUE
      [] st[1] = 2 /\ st[2] <= 0 -> S_DUE
      [] OTHER -> S_LEARNED

\* C18: load and refresh derive the status by one total rule: new queue gives
\* NEW; learning, relearning, or review with due <= 0 gives DUE; every other
\* state (review due later, suspended, buried) gives LEARNED; no state gives
\* UNKNOWN.
C18_StatusDerivation ==
    [][/\ sel.pc = "loading" =>
          \A states \in [CardsOf(Head(sel.todo)) -> LoadStates] :
             LoadDeck(states) =>
                \A n \in (Len(vocab) + 1)..Len(vocab') :
                    /\ vocab'[n].status = DerivedStatus(states[vocab'[n].card_id])
                    /\ vocab'[n].status # S_UNKNOWN
       /\ ret'.op = "review" =>
          \A card_id \in 1..Len(Cards), st \in AllCardStates :
             RefreshCardStatus(card_id, st) =>
                \A n \in 1..Len(vocab') :
                    vocab'[n].card_id = card_id =>
                       /\ vocab'[n].status = DerivedStatus(st)
                       /\ vocab'[n].status # S_UNKNOWN]_vars

C18_Witness ==
    /\ ret.op = "review"
    /\ Len(vocab) = 2
    /\ vocab[1].card_id = 5
    /\ vocab[1].status = S_LEARNED
    /\ vocab[2].card_id = 1
    /\ vocab[2].status = S_DUE

\* C19: a failing service call during the load reaches the caller as an error
\* and the load is not resumed; the registry keeps exactly the entries of the
\* decks loaded before the failing call: it is neither restored to what it
\* held before the selection nor emptied.
C19_PartialLoadStays ==
    [][LoadDeckFails =>
          /\ ret'.op = "error"
          /\ sel'.pc = "idle"
          /\ vocab' = vocab
          /\ HoldsExactly(vocab', SubSeq(selected_decks, 1,
                                         Len(selected_decks) - Len(sel.todo)))]_vars

C19_Witness ==
    /\ ret.op = "error"
    /\ sel.pc = "idle"
    /\ selected_decks = <<"D1", "D2">>
    /\ Len(vocab) = 1
    /\ vocab[1].hanzi = HuoCheZhan

\* C20: a refresh changes at most the entry with the card id, gives it the
\* status derived from the fetched state and keeps its other fields; it adds
\* and removes no key and keeps every other entry; with no entry of that card
\* id, or no card answered, the registry is unchanged.
C20_RefreshOne ==
    [][ret'.op = "review" =>
       \A card_id \in 1..Len(Cards), st \in AllCardStates \cup {NoCardInfo} :
          RefreshCardStatus(card_id, st) =>
             /\ Len(vocab') = Len(vocab)
             /\ \A n \in 1..Len(vocab) :
                   IF vocab[n].card_id = card_id /\ st # NoCardInfo
                   THEN vocab'[n] = [vocab[n] EXCEPT !.status = DerivedStatus(st)]
                   ELSE vocab'[n] = vocab[n]
             /\ (st = NoCardInfo \/ \A n \in 1..Len(vocab) : vocab[n].card_id # card_id)
                   => vocab' = vocab]_vars

C20_Witness ==
    /\ ret.op = "review"
    /\ selected_decks = <<"D2", "D1">>
    /\ Len(vocab) = 3
    /\ vocab[1].status = S_NEW
    /\ vocab[2].status = S_LEARNED
    /\ vocab[3].status = S_NEW

\* the token list of a text against the registry of the current state, the
\* segmenter holding the words added
TokensNow(text, added) ==
    classify_segments(segment_text(text, vocab, JiebaBase \cup added), vocab, cedict)

\* C21: when the rewrite returns, a sentence whose rewritten text differs
\* from its original has the token list of the rewritten text, and a sentence
\* whose text is unchanged keeps the token list it had; with the LLM
\* unavailable, or with no sentence changed by the call, every sentence is
\* returned unrewritten with the token list of its original.
C21_RewriteReclassifies ==
    [][/\ (art["r1"].pc = "rewrite" /\ art'["r1"].pc = "idle") =>
             LET old == art["r1"].article.sentences
                 new == ret'.found.sentences
             IN /\ Len(new) = Len(old)
                /\ ret'.op = "article"
                /\ \A i \in 1..Len(new) :
                      /\ new[i].original = old[i].original
                      /\ IF new[i].simplified # new[i].original
                         THEN new[i].words = TokensNow(new[i].simplified, jieba_words)
                         ELSE new[i].words = old[i].words
       /\ ArticleRequest("r1", TextTwo, FALSE, TRUE, 0, "zh", FALSE) =>
             LET new == ret'.found.sentences
             IN /\ ret'.op = "article"
                /\ Len(new) = 2
                /\ \A i \in 1..Len(new) :
                      /\ new[i].simplified = new[i].original
                      /\ new[i].words = TokensNow(new[i].original, jieba_words')]_vars

\* a document with its first sentence rewritten and its second unchanged
C21_Witness ==
    /\ ret.op = "article"
    /\ Len(ret.found.sentences) = 2
    /\ ret.found.sentences[1].simplified = HuoCheZhan \o De \o Mao
    /\ ret.found.sentences[1].original = HuoCheZhan \o Period
    /\ Len(ret.found.sentences[1].words) = 3
    /\ ret.found.sentences[2].simplified = ret.found.sentences[2].original
    /\ vocab # <<>>

AllCountersZero(stats) ==
    /\ stats.total_words = 0
    /\ stats.known_words = 0
    /\ stats.comprehension_percent = 0
    /\ stats.due_count = 0
    /\ stats.new_count = 0
    /\ stats.unknown_count = 0

\* C22: an English text with the LLM unavailable is answered, not refused:
\* the document has the one notice sentence with no tokens, no due and no new
\* words and every counter 0, and the registry and the set of texts
\* introduced today are left as they were.
C22_EnglishWithoutLLM ==
    [][\A rewrite \in BOOLEAN, max_new_words \in 0..MaxBudget :
          ArticleRequest("r1", TextEnglish, FALSE, rewrite, max_new_words, "auto", FALSE) =>
             /\ ret'.op = "article"
             /\ art'["r1"].pc = "idle"
             /\ Len(ret'.doc.sentences) = 1
             /\ ret'.doc.sentences[1].original = <<"LLM not available">>
             /\ ret'.doc.sentences[1].words = <<>>
             /\ ret'.doc.due_words = <<>>
             /\ ret'.doc.new_words = <<>>
             /\ AllCountersZero(ret'.doc.stats)
             /\ ret'.found.sentences = ret'.doc.sentences
             /\ vocab' = vocab
             /\ introduced_today' = introduced_today]_vars

C22_Witness ==
    /\ ret.op = "article"
    /\ Len(ret.doc.sentences) = 1
    /\ ret.doc.sentences[1].original = <<"LLM not available">>
    /\ ret.doc.stats.source_lang = "en"
    /\ vocab # <<>>
    /\ introduced_today # {}

\* every token of the sentences, in document order
AllTokens(doc) == FlatWords(doc.sentences, 1)

\* C23: the token lists of one returned document come from one registry
\* state; in particular a text that occurs in two sentences of the document
\* has the same status, card and deck in both.
C23_OneRegistryState ==
    ret.op = "article" =>
       \A i, j \in 1..Len(AllTokens(ret.found)) :
          AllTokens(ret.found)[i].hanzi = AllTokens(ret.found)[j].hanzi =>
             /\ AllTokens(ret.found)[i].status = AllTokens(ret.found)[j].status
             /\ AllTokens(ret.found)[i].card_id = AllTokens(ret.found)[j].card_id

\* the registry texts of more than one character
MultiCharKeys(v) == {h \in Keys(v) : Len(h) > 1}

\* C24: at the start of a segment and classify pass made while no selection
\* is in progress, the words the segmenter was given are exactly the registry
\* texts of more than one character: each of them is there, and no word of
\* decks selected earlier is left.
C24_BiasDictionaryIsRegistry ==
    [][(/\ sel.pc = "idle"
        /\ \E rewrite \in BOOLEAN, llm \in BOOLEAN :
              ArticleRequest("r1", TextTwo, FALSE, rewrite, 0, "zh", llm))
          => jieba_words' = MultiCharKeys(vocab)]_vars

\* the texts a step adds to the introduced set
AddedNow == introduced_today' \ introduced_today

\* C25: with requests processed one after another within one day, a request
\* starts with a budget of at most the allowance left, adds at most that many
\* texts, and so, the limit staying as it is, the number of texts introduced
\* today does not pass the limit.
C25_SequentialWithinLimit ==
    [][/\ (art["r1"].pc = "idle" /\ art'["r1"].pc # "idle") =>
             art'["r1"].eff <= RemainingOf(daily_new_limit, introduced_today')
       /\ Cardinality(AddedNow) <=
             (IF art["r1"].pc = "idle"
              THEN RemainingOf(daily_new_limit, introduced_today)
              ELSE art["r1"].eff)
       /\ (/\ daily_new_limit' = daily_new_limit
           /\ Cardinality(introduced_today) <= daily_new_limit
           /\ art["r1"].pc # "idle" =>
                 art["r1"].eff <= RemainingOf(daily_new_limit, introduced_today))
          => Cardinality(introduced_today') <= daily_new_limit]_vars

\* a request that found more new words than the one text still allowed
C25_Witness ==
    /\ ret.op = "article"
    /\ daily_new_limit = 2
    /\ Cardinality(introduced_today) = 2
    /\ ret.effective_max_new = 1
    /\ Len(ret.found.new_words) > 1
    /\ Len(ret.doc.new_words) = 1

\* C26: with two article requests in flight at once, each suspended between
\* its read of the allowance and its marking, the texts introduced today
\* stay within the daily limit.
C26_OverlapWithinLimit ==
    Cardinality(introduced_today) <= daily_new_limit

\* the texts of the tokens of a document that carry the given status
TextsTagged(doc, status) ==
    {AllTokens(doc)[i].hanzi :
        i \in {k \in 1..Len(AllTokens(doc)) : AllTokens(doc)[k].status = status}}

\* C27: in every returned document the texts of the tokens tagged NEW are
\* the texts of newWords, every text of dueWords is the text of a token
\* tagged DUE, and newCount and dueCount are the sizes of the two lists.
C27_AggregatesMatchTokens ==
    ret.op = "article" =>
       /\ TextsTagged(ret.doc, S_NEW) = Keys(ret.doc.new_words)
       /\ Keys(ret.doc.due_words) \subseteq TextsTagged(ret.doc, S_DUE)
       /\ ret.doc.stats.new_count = Cardinality(Keys(ret.doc.new_words))
       /\ ret.doc.stats.due_count = Cardinality(Keys(ret.doc.due_words))

\* C28: a request with budget n, made when the allowance left is r, is
\* answered with at most min(n, r) new words and adds at most min(n, r)
\* texts to the introduced set; n = 0 allows none.
C28_BudgetAndAllowance ==
    [][\A text \in ArticleTexts, rewrite \in BOOLEAN, max_new_words \in 0..MaxBudget,
          llm \in BOOLEAN :
          (/\ ArticleRequest("r1", text, FALSE, rewrite, max_new_words, "auto", llm)
           /\ ret'.op = "article")
          => LET reset == _check_date_reset(introduced_today, introduced_date, today)
                 allowed == Min(max_new_words, RemainingOf(daily_new_limit, reset.today))
             IN /\ Len(ret'.doc.new_words) <= allowed
                /\ Cardinality(introduced_today' \ reset.today) <= allowed]_vars

\* a token that is itself known: a registry key or a basic word
KnownWhole(seg, v) == seg \in BASIC_VOCAB \/ \E i \in 1..Len(v) : v[i].hanzi = seg

\* a token the numeral rule applies to
RuleApplies(seg, v) ==
    /\ Len(seg) > 2
    /\ \E n \in NumeralCuts(seg) :
          \/ SubSeq(seg, n + 1, Len(seg)) \in units
          \/ \E i \in 1..Len(v) : v[i].hanzi = SubSeq(seg, n + 1, Len(seg))

\* C29: the numeral split does not look at whether the whole token is known:
\* a base token the rule applies to is given as its numeral prefix and its
\* suffix also when it is a registry key or a basic word, and so no such word
\* is a token of a segmented text; the text of "November" and two more words
\* gives the numeral, the month unit and the two words.
C29_SplitIgnoresKnownWhole ==
    /\ ret.op = "numeric" =>
          \A i \in 1..Len(ret.segments) :
             (KnownWhole(ret.segments[i], ret.registry)
                 /\ RuleApplies(ret.segments[i], ret.registry))
             => /\ \A j \in 1..Len(ret.tokens) : ret.tokens[j] # ret.segments[i]
                /\ \E j \in 1..(Len(ret.tokens) - 1) :
                      <<ret.tokens[j], ret.tokens[j + 1]>> = Pieces(ret.segments[i], ret.registry)
    /\ ret.op = "segment" =>
          /\ \A j \in 1..Len(ret.tokens) :
                ~(KnownWhole(ret.tokens[j], ret.registry)
                    /\ RuleApplies(ret.tokens[j], ret.registry))
          /\ ret.text = ShiYiYue \o De \o Mao =>
                ret.tokens = << <<"shi", "yi">>, Yue, De, Mao >>

\* the month, a basic word and the text of a loaded card, given as one token
C29_Witness ==
    /\ ret.op = "numeric"
    /\ ret.segments = <<ShiYiYue>>
    /\ \E i \in 1..Len(ret.registry) : ret.registry[i].hanzi = ShiYiYue
    /\ ShiYiYue \in BASIC_VOCAB
    /\ ret.tokens = << <<"shi", "yi">>, Yue >>

\* the number of positions of a text that hold one of the characters
Count(text, chars) == Cardinality({i \in 1..Len(text) : text[i] \in chars})

\* C30: detection answers zh exactly when the text has more CJK ideographs
\* than Latin letters and en otherwise, so en on a tie, on an empty text and
\* on a text of punctuation only; a request with the hint en or zh is
\* processed in that language whatever its text, one with the hint auto in
\* the detected language.
C30_DetectLanguage ==
    [][/\ ret'.op = "detect" =>
             /\ ret'.lang \in {"zh", "en"}
             /\ ret'.lang = "zh" <=>
                   Count(ret'.text, CjkChars) > Count(ret'.text, LatinChars)
             /\ (Count(ret'.text, CjkChars) = Count(ret'.text, LatinChars))
                   => ret'.lang = "en"
             /\ (\A i \in 1..Len(ret'.text) : ret'.text[i] = "period")
                   => ret'.lang = "en"
       /\ ret'.op = "article" =>
          \A text \in {TextEnglish, TextStation}, source_lang \in {"auto", "en", "zh"} :
             ArticleRequest("r1", text, FALSE, FALSE, 0, source_lang, FALSE) =>
                ret'.found.stats.source_lang =
                   (IF source_lang # "auto" THEN source_lang
                    ELSE IF text = TextStation THEN "zh" ELSE "en")]_vars

\* one ideograph and one Latin letter: a tie
C30_Witness ==
    /\ ret.op = "detect"
    /\ ret.text = <<"huo", "a">>
    /\ ret.lang = "en"

====
